---- MODULE Spec2Model ----
(***************************************************************************)
(* Randomized depth-first maze generator (src/main.rs): the World state    *)
(* (visited, stack, removed_walls), World::update (one DFS step per call)  *)
(* and World::draw (the per-pixel painting rule).                          *)
(*                                                                         *)
(* The grid and the cell size are scaled down from the program's 30 x 30   *)
(* cells of 20 pixels so that the state space is finite and small; every   *)
(* definition below is parametric in COLS, ROWS and CELL_SIZE.             *)
(***************************************************************************)
EXTENDS Integers, Sequences, FiniteSets, TLC

\* main.rs:14-17, scaled down (the program has CELL_SIZE = 20, COLS = ROWS = 30).
CELL_SIZE == 2
COLS == 3
ROWS == 3

\* main.rs:19-21
CELL_COLOR == <<153, 153, 255, 255>>
VISITED_COLOR == <<255, 153, 153, 255>>
WALL_COLOR == <<255, 255, 255, 255>>

\* main.rs:23-24
WIN_WIDTH == COLS * CELL_SIZE
WIN_HEIGHT == ROWS * CELL_SIZE

\* The pixel buffer handed to draw() holds WIN_WIDTH * WIN_HEIGHT RGBA pixels
\* (main.rs:41); it is zero-filled until the first draw.
NumPixels == WIN_WIDTH * WIN_HEIGHT
BLANK == <<0, 0, 0, 0>>

\* update() is called once per input tick for as long as the program runs; the
\* model stops counting a little after the last call that can change anything.
MaxCalls == 2 * COLS * ROWS + 2

VARIABLES
    visited,        \* World.visited: HashSet<(usize, usize)>
    stack,          \* World.stack: Vec<(usize, usize)>
    removed_walls,  \* World.removed_walls: HashSet<Wall>
    frame,          \* the pixel buffer last written by draw()
    ret,            \* the value returned by the last update() call
    calls,          \* number of update() calls made so far
    pops            \* number of those calls that popped the stack

vars == <<visited, stack, removed_walls, frame, ret, calls, pops>>

\* struct Wall { orientation, x, y }
Wall(orientation, x, y) == [orientation |-> orientation, x |-> x, y |-> y]

Min(a, b) == IF a <= b THEN a ELSE b

\* World::new
Init ==
    /\ visited = {<<0, 0>>}
    /\ stack = <<<<0, 0>>>>
    /\ removed_walls = {}
    /\ frame = [i \in 0..(NumPixels - 1) |-> BLANK]
    /\ ret = FALSE
    /\ calls = 0
    /\ pops = 0

\* LeftOf with the guard current_x > 1 in place of current_x > 0.
LeftOfShort(v, current_x, current_y) ==
    IF current_x > 1 /\ <<current_x - 1, current_y>> \notin v
    THEN <<<< <<current_x - 1, current_y>>, "Vertical" >>>> ELSE <<>>

\* LeftOf without the visited test.
LeftOfAny(v, current_x, current_y) ==
    IF current_x > 0
    THEN <<<< <<current_x - 1, current_y>>, "Vertical" >>>> ELSE <<>>

\* LeftOf without the guard current_x > 0.
LeftOfNoGuard(v, current_x, current_y) ==
    IF <<current_x - 1, current_y>> \notin v
    THEN <<<< <<current_x - 1, current_y>>, "Vertical" >>>> ELSE <<>>

\* The four guarded pushes of update(), in the order Left, Right, Up, Down:
\* each in-bounds neighbour that is not visited, with the orientation of the
\* wall towards it.
LeftOf(v, current_x, current_y) ==
    IF current_x > 0 /\ <<current_x - 1, current_y>> \notin v
    THEN <<<< <<current_x - 1, current_y>>, "Vertical" >>>> ELSE <<>>

\* RightOf with the bound test off by one.
RightOfShort(v, current_x, current_y) ==
    IF current_x + 2 < COLS /\ <<current_x + 1, current_y>> \notin v
    THEN <<<< <<current_x + 1, current_y>>, "Vertical" >>>> ELSE <<>>

RightOf(v, current_x, current_y) ==
    IF current_x + 1 < COLS /\ <<current_x + 1, current_y>> \notin v
    THEN <<<< <<current_x + 1, current_y>>, "Vertical" >>>> ELSE <<>>

\* UpOf with the guard current_y > 1 in place of current_y > 0.
UpOfShort(v, current_x, current_y) ==
    IF current_y > 1 /\ <<current_x, current_y - 1>> \notin v
    THEN <<<< <<current_x, current_y - 1>>, "Horizontal" >>>> ELSE <<>>

\* UpOf without the visited test.
UpOfAny(v, current_x, current_y) ==
    IF current_y > 0
    THEN <<<< <<current_x, current_y - 1>>, "Horizontal" >>>> ELSE <<>>

UpOf(v, current_x, current_y) ==
    IF current_y > 0 /\ <<current_x, current_y - 1>> \notin v
    THEN <<<< <<current_x, current_y - 1>>, "Horizontal" >>>> ELSE <<>>

\* DownOf with the bound test off by one.
DownOfShort(v, current_x, current_y) ==
    IF current_y + 2 < ROWS /\ <<current_x, current_y + 1>> \notin v
    THEN <<<< <<current_x, current_y + 1>>, "Horizontal" >>>> ELSE <<>>

DownOf(v, current_x, current_y) ==
    IF current_y + 1 < ROWS /\ <<current_x, current_y + 1>> \notin v
    THEN <<<< <<current_x, current_y + 1>>, "Horizontal" >>>> ELSE <<>>

Neighbours(v, current_x, current_y) ==
    LeftOf(v, current_x, current_y) \o RightOf(v, current_x, current_y)
        \o UpOf(v, current_x, current_y) \o DownOf(v, current_x, current_y)

\* NewWall anchored at the larger coordinates.
NewWallMax(orientation, next_x, next_y, current_x, current_y) ==
    Wall(orientation,
         IF next_x >= current_x THEN next_x ELSE current_x,
         IF next_y >= current_y THEN next_y ELSE current_y)

\* NewWall that drops the orientation of the step.
NewWallOneOrientation(orientation, next_x, next_y, current_x, current_y) ==
    Wall("Vertical", Min(next_x, current_x), Min(next_y, current_y))

\* NewWall anchored at the cell being visited.
NewWallAtNext(orientation, next_x, next_y, current_x, current_y) ==
    Wall(orientation, next_x, next_y)

\* The Wall inserted by update() for the step from current to next.
NewWall(orientation, next_x, next_y, current_x, current_y) ==
    Wall(orientation, Min(next_x, current_x), Min(next_y, current_y))

\* The Wall update() builds when current is the top of the stack and next is
\* its only unvisited neighbour: the orientation is the one pushed with the
\* neighbour, the anchor the one NewWall computes.
WallFor(current, next) ==
    LET neighbours == Neighbours(((0..(COLS - 1)) \X (0..(ROWS - 1))) \ {next},
                                 current[1], current[2])
    IN  NewWall(neighbours[1][2], next[1], next[2], current[1], current[2])

\* ReturnEmpty that restarts from the seed.
ReturnEmptyRestart ==
    /\ stack' = <<<<0, 0>>>>
    /\ ret' = FALSE
    /\ UNCHANGED <<visited, removed_walls, pops>>

\* update(), empty stack: return false.
ReturnEmpty ==
    /\ ret' = FALSE
    /\ UNCHANGED <<visited, stack, removed_walls, pops>>

\* Backtrack that leaves the stack as it is.
BacktrackNoPop ==
    /\ pops' = pops + 1
    /\ ret' = FALSE
    /\ UNCHANGED <<visited, stack, removed_walls>>

\* Backtrack that also un-visits the cell it pops.
BacktrackUnvisit ==
    /\ stack' = SubSeq(stack, 1, Len(stack) - 1)
    /\ visited' = visited \ {stack[Len(stack)]}
    /\ pops' = pops + 1
    /\ ret' = FALSE
    /\ UNCHANGED removed_walls

\* Backtrack that reports a change.
BacktrackReturnsTrue ==
    /\ stack' = SubSeq(stack, 1, Len(stack) - 1)
    /\ pops' = pops + 1
    /\ ret' = TRUE
    /\ UNCHANGED <<visited, removed_walls>>

\* update(), no unvisited neighbour: self.stack.pop(); return false.
Backtrack ==
    /\ stack' = SubSeq(stack, 1, Len(stack) - 1)
    /\ pops' = pops + 1
    /\ ret' = FALSE
    /\ UNCHANGED <<visited, removed_walls>>

\* Advance that always takes the first neighbour found.
AdvanceFirst(neighbours, next_index, current_x, current_y) ==
    LET next == neighbours[1][1]
        orientation == neighbours[1][2]
    IN  /\ visited' = visited \cup {next}
        /\ stack' = Append(stack, next)
        /\ removed_walls' = removed_walls \cup
               {NewWall(orientation, next[1], next[2], current_x, current_y)}
        /\ ret' = TRUE
        /\ UNCHANGED pops

\* Advance that does not mark the neighbour visited.
AdvanceNoVisit(neighbours, next_index, current_x, current_y) ==
    LET next == neighbours[next_index + 1][1]
        orientation == neighbours[next_index + 1][2]
    IN  /\ stack' = Append(stack, next)
        /\ removed_walls' = removed_walls \cup
               {NewWall(orientation, next[1], next[2], current_x, current_y)}
        /\ ret' = TRUE
        /\ UNCHANGED <<visited, pops>>

\* Advance that does not remove the wall.
AdvanceNoWall(neighbours, next_index, current_x, current_y) ==
    LET next == neighbours[next_index + 1][1]
    IN  /\ visited' = visited \cup {next}
        /\ stack' = Append(stack, next)
        /\ ret' = TRUE
        /\ UNCHANGED <<removed_walls, pops>>

\* update(), neighbours[next_index] chosen: visit, push, remove the wall;
\* return true.
Advance(neighbours, next_index, current_x, current_y) ==
    LET next == neighbours[next_index + 1][1]
        orientation == neighbours[next_index + 1][2]
    IN  /\ visited' = visited \cup {next}
        /\ stack' = Append(stack, next)
        /\ removed_walls' = removed_walls \cup
               {NewWall(orientation, next[1], next[2], current_x, current_y)}
        /\ ret' = TRUE
        /\ UNCHANGED pops

\* World::update
update ==
    /\ calls < MaxCalls
    /\ calls' = calls + 1
    /\ UNCHANGED frame
    /\ IF stack = <<>>
       THEN ReturnEmpty
       ELSE LET current_x == stack[Len(stack)][1]
                current_y == stack[Len(stack)][2]
                neighbours == Neighbours(visited, current_x, current_y)
            IN  IF Len(neighbours) = 0
                THEN Backtrack
                ELSE \E next_index \in 0..(Len(neighbours) - 1) :
                        Advance(neighbours, next_index, current_x, current_y)

\* PixelColor that tests the horizontal grid line before the vertical one.
PixelColorHorizontalFirst(i, v, rw) ==
    LET x == i % WIN_WIDTH
        y == i \div WIN_WIDTH
    IN  IF y > 0 /\ y % CELL_SIZE = 0
        THEN IF Wall("Horizontal", x \div CELL_SIZE, (y \div CELL_SIZE) - 1) \notin rw
             THEN WALL_COLOR ELSE VISITED_COLOR
        ELSE IF x > 0 /\ x % CELL_SIZE = 0
        THEN IF Wall("Vertical", (x \div CELL_SIZE) - 1, y \div CELL_SIZE) \notin rw
             THEN WALL_COLOR ELSE VISITED_COLOR
        ELSE IF <<x \div CELL_SIZE, y \div CELL_SIZE>> \in v
             THEN VISITED_COLOR ELSE CELL_COLOR

\* PixelColor without the x > 0 and y > 0 guards.
PixelColorNoEdgeGuard(i, v, rw) ==
    LET x == i % WIN_WIDTH
        y == i \div WIN_WIDTH
    IN  IF x % CELL_SIZE = 0
        THEN IF Wall("Vertical", (x \div CELL_SIZE) - 1, y \div CELL_SIZE) \notin rw
             THEN WALL_COLOR ELSE VISITED_COLOR
        ELSE IF y % CELL_SIZE = 0
        THEN IF Wall("Horizontal", x \div CELL_SIZE, (y \div CELL_SIZE) - 1) \notin rw
             THEN WALL_COLOR ELSE VISITED_COLOR
        ELSE IF <<x \div CELL_SIZE, y \div CELL_SIZE>> \in v
             THEN VISITED_COLOR ELSE CELL_COLOR

\* PixelColor that looks the wall up at the cell after the grid line.
PixelColorAnchorAfterLine(i, v, rw) ==
    LET x == i % WIN_WIDTH
        y == i \div WIN_WIDTH
    IN  IF x > 0 /\ x % CELL_SIZE = 0
        THEN IF Wall("Vertical", x \div CELL_SIZE, y \div CELL_SIZE) \notin rw
             THEN WALL_COLOR ELSE VISITED_COLOR
        ELSE IF y > 0 /\ y % CELL_SIZE = 0
        THEN IF Wall("Horizontal", x \div CELL_SIZE, y \div CELL_SIZE) \notin rw
             THEN WALL_COLOR ELSE VISITED_COLOR
        ELSE IF <<x \div CELL_SIZE, y \div CELL_SIZE>> \in v
             THEN VISITED_COLOR ELSE CELL_COLOR

\* The colour draw() gives pixel i of the buffer.
PixelColor(i, v, rw) ==
    LET x == i % WIN_WIDTH
        y == i \div WIN_WIDTH
    IN  IF x > 0 /\ x % CELL_SIZE = 0
        THEN IF Wall("Vertical", (x \div CELL_SIZE) - 1, y \div CELL_SIZE) \notin rw
             THEN WALL_COLOR ELSE VISITED_COLOR
        ELSE IF y > 0 /\ y % CELL_SIZE = 0
        THEN IF Wall("Horizontal", x \div CELL_SIZE, (y \div CELL_SIZE) - 1) \notin rw
             THEN WALL_COLOR ELSE VISITED_COLOR
        ELSE IF <<x \div CELL_SIZE, y \div CELL_SIZE>> \in v
             THEN VISITED_COLOR ELSE CELL_COLOR

\* The whole buffer as draw() leaves it.
Image(v, rw) == [i \in 0..(NumPixels - 1) |-> PixelColor(i, v, rw)]

\* World::draw
draw ==
    /\ frame' = Image(visited, removed_walls)
    /\ UNCHANGED <<visited, stack, removed_walls, ret, calls, pops>>

Next == update \/ draw

Spec == Init /\ [][Next]_vars

(***************************************************************************)
(* Vocabulary of the properties: the grid and its walls as geometry,       *)
(* stated independently of update() and draw().                            *)
(***************************************************************************)

\* Every cell of the grid.
Cells == (0..(COLS - 1)) \X (0..(ROWS - 1))

Abs(n) == IF n < 0 THEN -n ELSE n

\* Two cells are axis-adjacent.
Adjacent(a, b) == Abs(a[1] - b[1]) + Abs(a[2] - b[2]) = 1

\* The in-bounds axis-neighbours of cell c that are not in v.
FreeNeighbours(c, v) == {n \in Cells \ v : Adjacent(c, n)}

\* The two cells a wall separates: its anchor and the cell to the right of
\* it (Vertical) or below it (Horizontal).
WallCells(w) ==
    {<<w.x, w.y>>,
     IF w.orientation = "Vertical" THEN <<w.x + 1, w.y>> ELSE <<w.x, w.y + 1>>}

\* The cells joined to the cells of S by the walls of E.
RECURSIVE ReachFrom(_, _)
ReachFrom(S, E) ==
    LET more == S \cup UNION {WallCells(e) : e \in {f \in E : WallCells(f) \cap S # {}}}
    IN  IF more = S THEN S ELSE ReachFrom(more, E)

\* The walls of E contain no cycle: pruning walls that end in a cell no other
\* wall touches removes all of them.
RECURSIVE Forest(_)
Forest(E) ==
    IF E = {} THEN TRUE
    ELSE LET leaves == {e \in E : \E c \in WallCells(e) :
                                      \A f \in E \ {e} : c \notin WallCells(f)}
         IN  IF leaves = {} THEN FALSE ELSE Forest(E \ leaves)

\* The walls of E make the cells of V a tree containing the seed.
IsTree(V, E) ==
    /\ \A e \in E : WallCells(e) \subseteq V
    /\ ReachFrom({<<0, 0>>}, E) = V
    /\ Forest(E)

Top == stack[Len(stack)]

\* C1: from World::new(), whatever the random choices, once 2*COLS*ROWS
\* calls of update() have been made the stack is empty, and an empty stack
\* stays empty.
C1_Termination ==
    /\ [](calls >= 2 * COLS * ROWS => stack = <<>>)
    /\ [][stack = <<>> => stack' = <<>>]_vars

C1_Witness == calls >= 2 * COLS * ROWS /\ stack = <<>> /\ pops = COLS * ROWS

\* C2: coverage: whenever the stack is empty, every cell of the grid is
\* visited.
C2_Coverage == stack = <<>> => visited = Cells

C2_Witness == stack = <<>> /\ Cells \subseteq visited

\* C3: perfect maze: in every reachable state the removed walls make the
\* visited cells a tree (connected from the seed, no cycle), and in the terminal
\* state that tree spans the whole grid.
C3_PerfectMaze ==
    /\ IsTree(visited, removed_walls)
    /\ stack = <<>> => IsTree(Cells, removed_walls)

C3_Witness ==
    stack = <<>> /\ removed_walls # {} /\ ReachFrom({<<0, 0>>}, removed_walls) = Cells

\* C4: wall count: whenever the stack is empty,
\* |removed_walls| = |visited| - 1 = COLS*ROWS - 1.
C4_WallCount ==
    stack = <<>> =>
        /\ Cardinality(removed_walls) = Cardinality(visited) - 1
        /\ Cardinality(visited) - 1 = COLS * ROWS - 1

C4_Witness == stack = <<>> /\ Cardinality(removed_walls) = COLS * ROWS - 1

\* C5: monotonicity: no step removes anything from visited or from
\* removed_walls.
C5_Monotonic ==
    [][visited \subseteq visited' /\ removed_walls \subseteq removed_walls']_vars

C5_Witness == pops > 0 /\ stack # <<>> /\ Top \notin {<<0, 0>>} /\ ret = TRUE

\* update() has just been called.
Called == calls' = calls + 1

\* C6: terminal no-op: a call of update() with an empty stack returns false
\* and leaves visited, stack and removed_walls as they were.
C6_TerminalNoOp ==
    [][(Called /\ stack = <<>>) =>
          (ret' = FALSE /\ UNCHANGED <<visited, stack, removed_walls>>)]_vars

C6_Witness == stack = <<>> /\ calls = MaxCalls /\ ret = FALSE

\* C7: backtrack: a call of update() whose top cell has no in-bounds
\* unvisited axis-neighbour removes exactly the top of the stack, keeps visited
\* and removed_walls, and returns false; no other call shortens the stack.
C7_Backtrack ==
    [][Called =>
          /\ (stack # <<>> /\ FreeNeighbours(Top, visited) = {}) =>
                /\ stack' = SubSeq(stack, 1, Len(stack) - 1)
                /\ UNCHANGED <<visited, removed_walls>>
                /\ ret' = FALSE
          /\ Len(stack') < Len(stack) =>
                (stack # <<>> /\ FreeNeighbours(Top, visited) = {})]_vars

C7_Witness == pops > 0 /\ ret = FALSE /\ stack # <<>> /\ Len(stack) < Cardinality(visited)

\* The orientation of the wall between two axis-adjacent cells.
OrientationBetween(a, b) == IF a[2] = b[2] THEN "Vertical" ELSE "Horizontal"

\* The step of update() from the top cell to the cell n.
AdvanceTo(n) ==
    /\ ret' = TRUE
    /\ visited' = visited \cup {n}
    /\ stack' = Append(stack, n)
    /\ removed_walls' = removed_walls \cup
           {Wall(OrientationBetween(Top, n), Min(Top[1], n[1]), Min(Top[2], n[2]))}
    /\ Cardinality(removed_walls') = Cardinality(removed_walls) + 1

\* C8: advance: a call of update() whose top cell has an in-bounds
\* unvisited axis-neighbour returns true, visits and pushes one such neighbour
\* and removes the one wall between it and the top cell (anchor at the
\* coordinate-wise minimum, Vertical for left/right, Horizontal for up/down);
\* every such neighbour is a possible outcome.
C8_Advance ==
    /\ [][(Called /\ stack # <<>> /\ FreeNeighbours(Top, visited) # {}) =>
             \E n \in FreeNeighbours(Top, visited) : AdvanceTo(n)]_vars
    /\ []((stack # <<>> /\ calls < MaxCalls) =>
             \A n \in FreeNeighbours(Top, visited) :
                 ENABLED (update /\ stack' = Append(stack, n)))

C8_Witness ==
    /\ ret = TRUE
    /\ Len(stack) >= 2
    /\ removed_walls # {}
    /\ Cardinality(FreeNeighbours(Top, visited)) >= 2

\* C9: the value update() returns tells whether the picture changed: it is
\* true exactly when draw() after the call paints something else than draw()
\* before the call.
C9_ReturnIsVisibleChange ==
    [][Called =>
          (ret' = TRUE <=>
              Image(visited', removed_walls') # Image(visited, removed_walls))]_vars

C9_Witness ==
    /\ ret = TRUE
    /\ pops > 0
    /\ \E i \in DOMAIN frame : frame[i] # BLANK
    /\ frame # Image(visited, removed_walls)

\* C10 as stated: |removed_walls| = |visited| - (number of backtrack steps
\* made so far).
C10_Original == Cardinality(removed_walls) = Cardinality(visited) - pops

\* C10, amended: in every reachable state |removed_walls| = |visited| - 1,
\* whatever the number of backtrack steps made so far.
C10_WallsAreVisitsMinusOne ==
    Cardinality(removed_walls) = Cardinality(visited) - 1

C10_Witness == pops >= 2 /\ stack # <<>> /\ removed_walls # {}

\* C11: no self-loop: every wall update() inserts separates two distinct
\* axis-adjacent cells of the grid, the top of the stack (already visited) and
\* the cell being visited (unvisited until this call); a call that returns true
\* inserts exactly one wall that was not there before, and no other call
\* inserts any.
C11_NoSelfLoop ==
    [][Called =>
          /\ \A w \in removed_walls' \ removed_walls :
                /\ Cardinality(WallCells(w)) = 2
                /\ WallCells(w) \subseteq Cells
                /\ \A a, b \in WallCells(w) : a # b => Adjacent(a, b)
                /\ stack # <<>>
                /\ Top \in WallCells(w) \cap visited
                /\ WallCells(w) \ visited = {stack'[Len(stack')]}
                /\ WallCells(w) \subseteq visited'
          /\ ret' = TRUE => Cardinality(removed_walls' \ removed_walls) = 1
          /\ ret' = FALSE => removed_walls' = removed_walls]_vars

C11_Witness ==
    /\ ret = TRUE
    /\ \E w \in removed_walls : w.orientation = "Vertical" /\ <<w.x, w.y>> = Top
    /\ \E w \in removed_walls : w.orientation = "Horizontal"

\* The ordered pairs of axis-adjacent cells of the grid.
AdjacentPairs == {p \in Cells \X Cells : Adjacent(p[1], p[2])}

\* The wall built is the same from either side, and different pairs of cells
\* get different walls.
WallIsCanonical ==
    /\ \A p \in AdjacentPairs : WallFor(p[1], p[2]) = WallFor(p[2], p[1])
    /\ \A p, q \in AdjacentPairs :
           WallFor(p[1], p[2]) = WallFor(q[1], q[2]) => {p[1], p[2]} = {q[1], q[2]}

\* C12: wall canonicalisation: the Wall update() builds for two adjacent
\* cells is the same whichever of them is current and whichever the neighbour,
\* two different unordered pairs of adjacent cells never give the same Wall,
\* and the wall a call inserts is the one it would build with the roles of the
\* top cell and the new cell exchanged.
C12_WallCanonical ==
    /\ []WallIsCanonical
    /\ [][(Called /\ ret' = TRUE) =>
             removed_walls' = removed_walls \cup {WallFor(stack'[Len(stack')], Top)}]_vars

C12_Witness ==
    /\ Len(stack) >= 3
    /\ Top[1] < stack[Len(stack) - 1][1]
    /\ Wall("Vertical", Top[1], Top[2]) \in removed_walls
    /\ \E i \in 1..(Len(stack) - 1) : stack[i][1] < stack[i + 1][1]

\* draw() has just been called.
Drawn == calls' = calls

\* The pixel coordinates of the raster, and the pixel (x, y) of a row-major
\* buffer.
XS == 0..(WIN_WIDTH - 1)
YS == 0..(WIN_HEIGHT - 1)
PixelAt(f, x, y) == f[y * WIN_WIDTH + x]

\* The cell a pixel lies in.
CellOf(x, y) == <<x \div CELL_SIZE, y \div CELL_SIZE>>

\* The colour of a cell's interior and of a wall's grid line.
CellPaint(c, v) == IF c \in v THEN VISITED_COLOR ELSE CELL_COLOR
WallPaint(w, rw) == IF w \in rw THEN VISITED_COLOR ELSE WALL_COLOR

\* The per-pixel rule.
RuleColor(x, y, v, rw) ==
    CASE x > 0 /\ x % CELL_SIZE = 0 ->
             WallPaint(Wall("Vertical", CellOf(x, y)[1] - 1, CellOf(x, y)[2]), rw)
      [] ~(x > 0 /\ x % CELL_SIZE = 0) /\ y > 0 /\ y % CELL_SIZE = 0 ->
             WallPaint(Wall("Horizontal", CellOf(x, y)[1], CellOf(x, y)[2] - 1), rw)
      [] OTHER -> CellPaint(CellOf(x, y), v)

\* C13: per-pixel rule: draw() writes every pixel (x, y) of the raster by
\* the rule (vertical grid line, else horizontal grid line, else cell
\* interior); drawn in the initial state, pixel (0, 0) is VISITED_COLOR, an
\* interior pixel of cell (1, 1) is CELL_COLOR and pixel (CELL_SIZE, 0) is
\* WALL_COLOR.
C13_PixelRule ==
    [][Drawn =>
          /\ DOMAIN frame' = 0..(WIN_WIDTH * WIN_HEIGHT - 1)
          /\ \A x \in XS, y \in YS :
                 PixelAt(frame', x, y) = RuleColor(x, y, visited, removed_walls)
          /\ calls = 0 =>
                 /\ PixelAt(frame', 0, 0) = VISITED_COLOR
                 /\ PixelAt(frame', CELL_SIZE + 1, CELL_SIZE + 1) = CELL_COLOR
                 /\ PixelAt(frame', CELL_SIZE, 0) = WALL_COLOR]_vars

C13_Witness ==
    /\ frame = Image(visited, removed_walls)
    /\ \E w \in removed_walls : w.orientation = "Vertical"
    /\ \E w \in removed_walls : w.orientation = "Horizontal"
    /\ visited # Cells

\* C14 as stated: draw() paints every pixel with x = 0 or y = 0 with the
\* interior colour of its cell.
C14_Original ==
    [][Drawn =>
          \A x \in XS, y \in YS :
              (x = 0 \/ y = 0) =>
                  PixelAt(frame', x, y) = CellPaint(CellOf(x, y), visited)]_vars

\* C14, amended: a pixel with x = 0 is never painted as a vertical grid
\* line and a pixel with y = 0 never as a horizontal one: it gets the interior
\* colour of its cell, unless its other coordinate is a positive multiple of
\* CELL_SIZE, and then it is painted as the grid line of that other direction,
\* by the status of the wall there.
C14_EdgePixels ==
    [][Drawn =>
          /\ \A y \in YS :
                 PixelAt(frame', 0, y) =
                     IF y > 0 /\ y % CELL_SIZE = 0
                     THEN WallPaint(Wall("Horizontal", 0, (y \div CELL_SIZE) - 1),
                                    removed_walls)
                     ELSE CellPaint(CellOf(0, y), visited)
          /\ \A x \in XS :
                 PixelAt(frame', x, 0) =
                     IF x > 0 /\ x % CELL_SIZE = 0
                     THEN WallPaint(Wall("Vertical", (x \div CELL_SIZE) - 1, 0),
                                    removed_walls)
                     ELSE CellPaint(CellOf(x, 0), visited)]_vars

C14_Witness ==
    /\ frame = Image(visited, removed_walls)
    /\ PixelAt(frame, 0, CELL_SIZE) = VISITED_COLOR
    /\ PixelAt(frame, CELL_SIZE, 0) = WALL_COLOR
    /\ PixelAt(frame, 0, WIN_HEIGHT - 1) = CELL_COLOR

\* The cells on the stack.
OnStack(s) == {s[i] : i \in DOMAIN s}

\* C15: every cell on the stack is visited, and the stack is non-empty
\* exactly when the next call of update() changes the state, which it then
\* does by one push or one pop.
C15_StackVisited ==
    /\ [](OnStack(stack) \subseteq visited)
    /\ [][Called =>
             /\ stack # <<>> <=>
                    <<visited, stack, removed_walls>>' # <<visited, stack, removed_walls>>
             /\ stack # <<>> =>
                    \/ stack' = SubSeq(stack, 1, Len(stack) - 1)
                    \/ (Len(stack') = Len(stack) + 1
                           /\ SubSeq(stack', 1, Len(stack)) = stack)]_vars

C15_Witness ==
    /\ Len(stack) >= 2
    /\ ret = FALSE
    /\ pops > 0
    /\ visited \ OnStack(stack) # {}

\* The wall between two axis-adjacent cells.
WallBetween(a, b) ==
    Wall(OrientationBetween(a, b), Min(a[1], b[1]), Min(a[2], b[2]))

\* C16: a non-empty stack is a simple path from the seed: it starts at
\* (0,0), repeats no cell, consecutive cells are axis-adjacent and the wall
\* between them is removed; a cell that has been popped (visited, no longer on
\* the stack) is never pushed again.
C16_StackIsPath ==
    /\ [](stack # <<>> =>
             /\ stack[1] = <<0, 0>>
             /\ Cardinality(OnStack(stack)) = Len(stack)
             /\ \A i \in 1..(Len(stack) - 1) :
                    /\ Adjacent(stack[i], stack[i + 1])
                    /\ WallBetween(stack[i], stack[i + 1]) \in removed_walls)
    /\ [][Called =>
             \A c \in visited \ OnStack(stack) : c \notin OnStack(stack')]_vars

C16_Witness ==
    /\ Len(stack) >= 3
    /\ ret = TRUE
    /\ Cardinality(visited \ OnStack(stack)) >= 2
    /\ WallBetween(stack[Len(stack) - 1], Top) \in removed_walls

\* C17 as stated: a complete run makes COLS*ROWS visits and each of them
\* removes one wall.
C17_Original ==
    stack = <<>> =>
        /\ Cardinality(visited) = COLS * ROWS
        /\ Cardinality(removed_walls) = COLS * ROWS

\* C17, amended: the call that empties the stack is call number
\* 2*COLS*ROWS - 1; by then COLS*ROWS cells are visited, the seed by
\* World::new with no wall removed and COLS*ROWS - 1 by calls of update() that
\* each removed one wall, and COLS*ROWS calls were backtrack steps.
C17_CompleteRun ==
    [][(stack # <<>> /\ stack' = <<>>) =>
          /\ Cardinality(visited') = COLS * ROWS
          /\ calls' - pops' = COLS * ROWS - 1
          /\ Cardinality(removed_walls') = calls' - pops'
          /\ pops' = COLS * ROWS]_vars

C17_Witness ==
    /\ stack = <<>>
    /\ calls = 2 * COLS * ROWS - 1
    /\ calls - pops = Cardinality(removed_walls)

\* The candidate cells update() computes for the top of the stack.
Candidates ==
    LET neighbours == Neighbours(visited, Top[1], Top[2])
    IN  {neighbours[k][1] : k \in DOMAIN neighbours}

\* C18: bounds: every cell in visited and on the stack is a cell of the
\* grid, visited holds (0,0) and at most COLS*ROWS cells, and every neighbour
\* update() computes for the top cell is a cell of the grid: it never
\* subtracts 1 from a coordinate that is 0.
C18_Bounds ==
    /\ visited \subseteq Cells
    /\ OnStack(stack) \subseteq Cells
    /\ <<0, 0>> \in visited
    /\ Cardinality(visited) <= COLS * ROWS
    /\ stack # <<>> =>
           /\ Candidates \subseteq Cells
           /\ \A c \in Candidates : c[1] >= 0 /\ c[2] >= 0

C18_Witness ==
    /\ calls > 0
    /\ stack # <<>>
    /\ Top[1] = 0
    /\ Top[2] = ROWS - 1
    /\ Candidates # {}

\* C19: closed cells: every visited cell that is not on the stack has all
\* its in-bounds axis-neighbours visited.
C19_ClosedCells ==
    \A c \in visited \ OnStack(stack) : FreeNeighbours(c, visited) = {}

C19_Witness ==
    /\ stack # <<>>
    /\ visited # Cells
    /\ Cardinality(visited \ OnStack(stack)) >= 2
    /\ FreeNeighbours(Top, visited) # {}

\* Pixel (x, y) lies on a grid line, and the wall whose line it lies on (the
\* vertical one where two lines cross).
OnGridLine(x, y) == (x > 0 /\ x % CELL_SIZE = 0) \/ (y > 0 /\ y % CELL_SIZE = 0)
LineWall(x, y) ==
    IF x > 0 /\ x % CELL_SIZE = 0
    THEN Wall("Vertical", (x \div CELL_SIZE) - 1, y \div CELL_SIZE)
    ELSE Wall("Horizontal", x \div CELL_SIZE, (y \div CELL_SIZE) - 1)

\* The pixels of the grid line of wall w, between its two cells, whose
\* coordinate along the line is not a multiple of CELL_SIZE.
LinePixels(w) ==
    IF w.orientation = "Vertical"
    THEN {<<(w.x + 1) * CELL_SIZE, y>> :
              y \in {k \in (w.y * CELL_SIZE)..(w.y * CELL_SIZE + CELL_SIZE - 1) :
                         k % CELL_SIZE # 0}}
    ELSE {<<x, (w.y + 1) * CELL_SIZE>> :
              x \in {k \in (w.x * CELL_SIZE)..(w.x * CELL_SIZE + CELL_SIZE - 1) :
                         k % CELL_SIZE # 0}}

\* C20: draw() and update() agree on wall geometry: a grid-line pixel that
\* draw() paints VISITED_COLOR lies on a wall between two visited cells of the
\* grid, and for every removed wall draw() paints VISITED_COLOR every pixel of
\* its grid line between its two cells whose coordinate along the line is not
\* a multiple of CELL_SIZE.
C20_GeometryAgrees ==
    [][Drawn =>
          /\ \A x \in XS, y \in YS :
                 (OnGridLine(x, y) /\ PixelAt(frame', x, y) = VISITED_COLOR) =>
                     WallCells(LineWall(x, y)) \subseteq (Cells \cap visited)
          /\ \A w \in removed_walls : \A p \in LinePixels(w) :
                 /\ p[1] \in XS /\ p[2] \in YS
                 /\ PixelAt(frame', p[1], p[2]) = VISITED_COLOR]_vars

C20_Witness ==
    /\ frame = Image(visited, removed_walls)
    /\ \E w \in removed_walls :
           /\ w.orientation = "Horizontal"
           /\ w.x > 0
           /\ \E p \in LinePixels(w) : PixelAt(frame, p[1], p[2]) = VISITED_COLOR
    /\ \E w \in removed_walls : w.orientation = "Vertical" /\ w.y > 0

====
